---- MODULE Spec2Model ----
(***************************************************************************)
(* A model of veil: the concurrent trust resolver (App.getRolesWithTrust), *)
(* the trust-document decoder, the principal aggregator, the inverter and  *)
(* the output path of runScanIAM and main.                                 *)
(*                                                                         *)
(* Principal identifiers are modelled as the naturals 1..MaxPrincipal; the *)
(* order < on them stands for the byte-wise order of sort.Strings.  Role   *)
(* ARNs are the strings of RoleArns (map keys, never ordered by the code). *)
(***************************************************************************)
EXTENDS Naturals, Sequences, FiniteSets, TLC

\* ------------------------------------------------------------------ bounds
MaxPages == 2          \* pages the paging collaborator serves in one run
MaxRoles == 2          \* role records over all pages of one run
MaxPrincipal == 2      \* distinct principal identifiers
MaxStatements == 2     \* statements of a generated TrustPolicy
MaxItems == 3          \* principal occurrences of a generated TrustPolicy
MaxEntries == 3        \* list entries of a generated role-to-principals map
MaxElements == 2       \* elements of a generated JSON array
MaxRawStatements == 1  \* statements of a generated trust document

\* The five principal categories of struct Principal, in getAll's order.
Categories == <<"Service", "AWS", "Federated", "CanonicalUser", "Anonymous">>

CategorySet == {Categories[i] : i \in 1..Len(Categories)}

PrincipalIds == 1..MaxPrincipal

RoleArns == {"role1", "role2", "role3"}

\* ------------------------------------------------------- sequences helpers
Range(s) == {s[i] : i \in 1..Len(s)}

\* F applied to the value of x: the argument is evaluated once, before F
\* reads it (operators otherwise take their arguments by name).
ByValue(F(_), x) == CHOOSE r \in {F(v) : v \in {x}} : TRUE

\* Go's iteration over the keys of a map: some enumeration of the key set
\* (here the descending one; uniqSlice sorts what it collects, so the order
\* chosen does not reach its result).
MapKeysInOrder(S) ==
  [i \in 1..Cardinality(S) |->
     CHOOSE x \in S : Cardinality({y \in S : y > x}) = i - 1]

\* json.MarshalIndent of a map[string][]string: the members in ascending
\* key order, each array in its own order
MarshalIndent(m) ==
  [i \in 1..Cardinality(DOMAIN m) |->
     LET k == CHOOSE x \in DOMAIN m : Cardinality({y \in DOMAIN m : y < x}) = i - 1
     IN <<k, m[k]>>]

\* sort.Strings: ascending, duplicates kept; the element at position i is
\* the one with fewer than i elements below it and at least i not above it.
SortStrings(s) ==
  [i \in 1..Len(s) |->
     CHOOSE x \in Range(s) :
       /\ Cardinality({j \in 1..Len(s) : s[j] < x}) < i
       /\ i <= Cardinality({j \in 1..Len(s) : s[j] <= x})]

\* uniqSlice without the trailing sort.Strings.
uniqSliceNoSort(input) == ByValue(MapKeysInOrder, Range(input))

\* uniqSlice: the input's elements as hashMap keys, collected, then sorted.
uniqSlice(input) ==
  ByValue(SortStrings, ByValue(MapKeysInOrder, Range(input)))

\* Whether a slice is nil after append(s, xs...): a nil slice stays nil when
\* nothing is appended, a slice from make is never nil.
NilAfterAppend(isNil, xs) == isNil /\ xs = <<>>

\* uniqSlice with output declared by var, without make
uniqSliceIsNilVar(input) ==
  NilAfterAppend(TRUE, ByValue(MapKeysInOrder, Range(input)))

\* whether uniqSlice returns nil: output := make([]string, 0, len(hashMap)),
\* then the keys appended
uniqSliceIsNil(input) ==
  NilAfterAppend(FALSE, ByValue(MapKeysInOrder, Range(input)))

\* ------------------------------------------------------------ TrustPolicy
\* A Principal is a record of five Items (sequences of identifiers); a
\* Statement is [Principal |-> ..., Action |-> ...]; a TrustPolicy is
\* [Statement |-> sequence of Statements].
EmptyPrincipal == [c \in CategorySet |-> <<>>]

\* allItems of Principal.getAll: the five categories appended in order
RECURSIVE AppendCategories(_, _)
AppendCategories(p, i) ==
  IF i > Len(Categories) THEN <<>>
  ELSE p[Categories[i]] \o AppendCategories(p, i + 1)

AllItems(p) == AppendCategories(p, 1)

\* Principal.getAll
getAll(p) == uniqSlice(ByValue(AllItems, p))

\* output of getAllPrincipals before uniqSlice: every statement's getAll,
\* appended in statement order
RECURSIVE AppendStatements(_)
AppendStatements(stmts) ==
  IF stmts = <<>> THEN <<>>
  ELSE getAll(Head(stmts).Principal) \o AppendStatements(Tail(stmts))

\* getAllPrincipals that returns the appended per-statement lists as they
\* are (deduplication per statement only).
getAllPrincipalsPerStatement(policy) ==
  ByValue(AppendStatements, policy.Statement)

\* TrustPolicy.getAllPrincipals
getAllPrincipals(policy) ==
  uniqSlice(ByValue(AppendStatements, policy.Statement))

\* whether getAllPrincipals returns nil: it returns what uniqSlice returns
getAllPrincipalsIsNil(policy) ==
  uniqSliceIsNil(ByValue(AppendStatements, policy.Statement))

\* ------------------------------------------------------------- decoding
\* The empty string, below every identifier in byte order.
EmptyString == 0

\* A raw JSON value: t is its kind, s the text of a string, a the elements
\* of an array (raw values themselves).
JAbsent == [t |-> "absent", s |-> EmptyString, a |-> <<>>]

JNull == [t |-> "null", s |-> EmptyString, a |-> <<>>]

JNumber == [t |-> "number", s |-> EmptyString, a |-> <<>>]

JObject == [t |-> "object", s |-> EmptyString, a |-> <<>>]

JString(s) == [t |-> "string", s |-> s, a |-> <<>>]

\* an array of the given raw values
JArrayOf(es) == [t |-> "array", s |-> EmptyString, a |-> es]

\* an array of strings
JArray(q) == JArrayOf([i \in 1..Len(q) |-> JString(q[i])])

\* json.Unmarshal(data, &single): a JSON string is stored, null leaves the
\* zero value without an error, any other kind is a type error
UnmarshalString(v) ==
  IF v.t = "string" THEN [err |-> FALSE, single |-> v.s]
  ELSE IF v.t = "null" THEN [err |-> FALSE, single |-> EmptyString]
  ELSE [err |-> TRUE, single |-> EmptyString]

\* json.Unmarshal(data, &many): an array is decoded element by element as
\* strings are, null gives the nil slice, any other kind is a type error
UnmarshalStrings(v) ==
  IF v.t = "null" THEN [err |-> FALSE, many |-> <<>>]
  ELSE IF v.t = "array"
    THEN [err |-> \E i \in 1..Len(v.a) : UnmarshalString(v.a[i]).err,
          many |-> [i \in 1..Len(v.a) |-> UnmarshalString(v.a[i]).single]]
  ELSE [err |-> TRUE, many |-> <<>>]

\* Items.UnmarshalJSON: empty data and null give nil; then the string
\* attempt, giving a one-element list; then the array attempt, giving that
\* list; else an error, the receiver left as it was (nil).  by names the
\* return statement taken.  encoding/json does not call it for an absent
\* field, which stays nil as well.
ItemsUnmarshalJSON(v) ==
  IF v.t \in {"absent", "null"}
    THEN [err |-> FALSE, isNil |-> TRUE, by |-> "nil", items |-> <<>>]
  ELSE IF ~UnmarshalString(v).err
    THEN [err |-> FALSE, isNil |-> FALSE, by |-> "string",
          items |-> <<UnmarshalString(v).single>>]
  ELSE IF ~UnmarshalStrings(v).err
    THEN [err |-> FALSE, isNil |-> FALSE, by |-> "array",
          items |-> UnmarshalStrings(v).many]
  ELSE [err |-> TRUE, isNil |-> TRUE, by |-> "none", items |-> <<>>]

\* A raw Principal value: t is its kind; f its fields when it is an object.
RawPrincipal(t, f) == [t |-> t, f |-> f]

NoFields == [c \in CategorySet |-> JAbsent]

\* encoding/json into struct Principal: an object decodes field by field,
\* null and absent leave the zero struct, any other kind is a type error.
PrincipalUnmarshal(rp) ==
  IF rp.t \in {"absent", "null"} THEN [err |-> FALSE, principal |-> EmptyPrincipal]
  ELSE IF rp.t = "object"
    THEN [err |-> \E c \in CategorySet : ItemsUnmarshalJSON(rp.f[c]).err,
          principal |-> [c \in CategorySet |-> ItemsUnmarshalJSON(rp.f[c]).items]]
  ELSE [err |-> TRUE, principal |-> EmptyPrincipal]

StatementUnmarshal(rs) ==
  [err |-> PrincipalUnmarshal(rs.Principal).err \/ ItemsUnmarshalJSON(rs.Action).err,
   statement |-> [Principal |-> PrincipalUnmarshal(rs.Principal).principal,
                  Action |-> ItemsUnmarshalJSON(rs.Action).items]]

\* TrustPolicy{}: no version, no statements
ZeroPolicy == [Version |-> "", Statement |-> <<>>]

\* decodeRoleTrust: url.QueryUnescape, then json.Unmarshal into TrustPolicy;
\* either failure returns TrustPolicy{} and an error.  A document is
\* [esc |-> percent-decodable, syn |-> valid JSON text, Version |-> its
\* version, Statement |-> its raw statements].
decodeRoleTrust(role) ==
  LET doc == role.doc
      dec == [i \in 1..Len(doc.Statement) |-> StatementUnmarshal(doc.Statement[i])]
  IN IF ~doc.esc THEN [err |-> "unescape", policy |-> ZeroPolicy]
     ELSE IF ~doc.syn \/ \E i \in 1..Len(dec) : dec[i].err
       THEN [err |-> "unmarshal", policy |-> ZeroPolicy]
     ELSE [err |-> "none",
           policy |-> [Version |-> doc.Version,
                       Statement |-> [i \in 1..Len(dec) |-> dec[i].statement]]]

\* Trust documents the paging collaborator serves (after the test fixtures):
\* the text "invalid policy"; a Service given as one string; a Federated
\* given as an array, out of order.
DocInvalid == [esc |-> TRUE, syn |-> FALSE, Version |-> "", Statement |-> <<>>]

DocECS ==
  [esc |-> TRUE, syn |-> TRUE, Version |-> "2012-10-17",
   Statement |-> <<[Principal |-> RawPrincipal("object",
                       [NoFields EXCEPT !["Service"] = JString(1)]),
                    Action |-> JString(1)]>>]

DocSSO ==
  [esc |-> TRUE, syn |-> TRUE, Version |-> "2012-10-17",
   Statement |-> <<[Principal |-> RawPrincipal("object",
                       [NoFields EXCEPT !["Federated"] = JArray(<<2, 1>>)]),
                    Action |-> JArray(<<1, 2>>)]>>]

Docs == {DocInvalid, DocECS, DocSSO}

Role(arn, doc) == [arn |-> arn, doc |-> doc]

\* the role records the paging collaborator serves: two roles that decode
\* under distinct ARNs and a role whose document does not decode (a record
\* served twice gives two roles of one ARN)
RoleRecords ==
  {Role("role1", DocECS), Role("role1", DocInvalid), Role("role2", DocSSO)}

\* ------------------------------------------------- getRolesWithTrust state
VARIABLES
  mainPc,        \* where getRolesWithTrust is: loop, fetching, launch, wait,
                 \* done (it has returned), exit (main has returned)
  callerDone,    \* the caller's ctx is cancelled or expired
  expiredAtCall, \* the caller's ctx was already expired at the call
  gCancelled,    \* errgroup has cancelled gCtx (first unit error, or Wait)
  groupErr,      \* errgroup's g.err (set once, by errOnce)
  units,         \* the goroutines started by group.Go, in launch order
  mutex,         \* 0, or the unit holding the sync.Mutex
  output,        \* the shared map[string][]string
  requests,      \* NextPage calls made
  more,          \* paginator.HasMorePages()
  page,          \* the roles of page.Roles the range loop has yet to visit
  ret,           \* what getRolesWithTrust returned
  failedRequest, \* 0, or the number of the NextPage call that failed
  scan,          \* what runScanIAM returned
  stdout,        \* what main wrote to os.Stdout
  inserted       \* the ARNs stored in the shared map, in the order stored

resolverVars == <<mainPc, callerDone, expiredAtCall, gCancelled, groupErr, units,
                  mutex, output, requests, more, page, ret, failedRequest,
                  scan, stdout, inserted>>

\* ------------------------------------------- calls of the pure functions
VARIABLES
  fnMode,        \* which function is exercised: idle, aggregate, flip,
                 \* items or decode
  policy,        \* the TrustPolicy getAllPrincipals is called on
  principals,    \* [done, list]: what getAllPrincipals returned
  trustMap,      \* the map[string][]string mapFlip is called on
  flipped,       \* [done, map]: what mapFlip returned
  flippedBack,   \* [done, map]: what mapFlip returned for flipped.map
  rawValue,      \* the JSON value Items.UnmarshalJSON is called on
  itemsResult,   \* [done, r]: what Items.UnmarshalJSON returned and stored
  rawDoc,        \* the trust document decodeRoleTrust is called on
  decodeResult   \* [done, r]: what decodeRoleTrust returned

fnVars == <<fnMode, policy, principals, trustMap, flipped, flippedBack,
            rawValue, itemsResult, rawDoc, decodeResult>>

vars == <<resolverVars, fnVars>>

\* An error is [wrap, kind, unit, arn]: the message the unit wrapped it in,
\* what failed, the unit whose return value it is, and the role ARN its
\* text names (NoArn when it names none).
NoArn == ""

NoError == [wrap |-> "none", kind |-> "none", unit |-> 0, arn |-> NoArn]

\* gCtx.Err() as returned by unit u.
CtxError(u) == [wrap |-> "none", kind |-> "ctx", unit |-> u, arn |-> NoArn]

\* fmt.Errorf("failed to decode role trust policy: %w", errDecodeTrust),
\* errDecodeTrust being "failed to unescape URL: ..." or "failed to
\* unmarshal JSON: ..." around the library's error: the only arguments
\* formatted are errors, the role's ARN goes to slog.Debug alone
DecodeError(u, kind) ==
  [wrap |-> "decode", kind |-> kind, unit |-> u, arn |-> NoArn]

\* the error of paginator.NextPage: the collaborator's own ("fetch"), or the
\* context's, from a client that honours the context it is given ("ctx")
PageError(kind) == [wrap |-> "none", kind |-> kind, unit |-> 0, arn |-> NoArn]

NotReturned == [returned |-> FALSE, nilMap |-> TRUE, map |-> <<>>,
                outer |-> "none", err |-> NoError]

\* return nil, fmt.Errorf("<outer>: %w", err)
ReturnError(outer, err) ==
  [returned |-> TRUE, nilMap |-> TRUE, map |-> <<>>, outer |-> outer, err |-> err]

\* output declared without make: nil until something is stored in it
ReturnMapUnmade(m) ==
  [returned |-> TRUE, nilMap |-> (DOMAIN m = {}), map |-> m, outer |-> "none",
   err |-> NoError]

\* return output, nil
ReturnMap(m) ==
  [returned |-> TRUE, nilMap |-> FALSE, map |-> m, outer |-> "none", err |-> NoError]

\* runScanIAM's return value: bytes is the marshalled text, a sequence of
\* <<key, array>> members
NotScanned == [returned |-> FALSE, nilBytes |-> TRUE, bytes |-> <<>>, err |-> FALSE]

\* nothing has been written to os.Stdout
NoOutput == [written |-> FALSE, bytes |-> <<>>]

\* <-gCtx.Done() is ready: gCtx is derived from the caller's ctx
gCtxDone == callerDone \/ gCancelled

UnitIds == 1..Len(units)

AllUnitsDone == \A u \in UnitIds : units[u].pc = "done"

\* a store that loses the entries stored before it
MapPutLost(m, key, value) == [k \in {key} |-> value]

\* output[key] = value
MapPut(m, key, value) ==
  [k \in DOMAIN m \cup {key} |-> IF k = key THEN value ELSE m[k]]

\* what group.Go starts for a role
NewUnit(role) ==
  [role |-> role, pc |-> "entry", policy |-> ZeroPolicy, result |-> NoError,
   decoded |-> FALSE, wrote |-> FALSE, late |-> FALSE,
   aggregatedAt |-> "none"]

\* errgroup's errOnce.Do: keep the first non-nil error and cancel gCtx
ErrOnce(err) ==
  IF err # NoError /\ groupErr = NoError
    THEN groupErr' = err /\ gCancelled' = TRUE
    ELSE UNCHANGED <<groupErr, gCancelled>>

\* errgroup: a unit returning err runs errOnce and then g.done()
UnitReturns(u, err) ==
  /\ units' = [units EXCEPT ![u].pc = "done", ![u].result = err]
  /\ ErrOnce(err)

NotAggregated == [done |-> FALSE, list |-> <<>>, isNil |-> TRUE]

NotFlipped == [done |-> FALSE, map |-> <<>>, isNil |-> TRUE, inputNil |-> FALSE]

NotUnmarshalled == [done |-> FALSE, r |-> ItemsUnmarshalJSON(JAbsent)]

\* the document {}
DocEmpty == [esc |-> TRUE, syn |-> TRUE, Version |-> "", Statement |-> <<>>]

NotDecoded == [done |-> FALSE, r |-> [err |-> "none", policy |-> ZeroPolicy]]

\* no pure function has been given an input or called
FnStart ==
  /\ policy = ZeroPolicy
  /\ principals = NotAggregated
  /\ trustMap = <<>>
  /\ flipped = NotFlipped
  /\ flippedBack = NotFlipped
  /\ rawValue = JAbsent
  /\ itemsResult = NotUnmarshalled
  /\ rawDoc = DocEmpty
  /\ decodeResult = NotDecoded

FnIdle ==
  /\ fnMode = "idle"
  /\ FnStart

Init ==
  /\ FnIdle
  /\ mainPc = "loop"
  /\ callerDone \in BOOLEAN
  /\ expiredAtCall = callerDone
  /\ gCancelled = FALSE
  /\ groupErr = NoError
  /\ units = <<>>
  /\ mutex = 0
  /\ output = <<>>
  /\ requests = 0
  /\ more = TRUE
  /\ page = <<>>
  /\ ret = NotReturned
  /\ failedRequest = 0
  /\ scan = NotScanned
  /\ stdout = NoOutput
  /\ inserted = <<>>

\* the caller cancels ctx, or its deadline passes, while the call runs
CallerCancel ==
  /\ ~ret.returned
  /\ ~callerDone
  /\ callerDone' = TRUE
  /\ UNCHANGED fnVars
  /\ UNCHANGED <<scan, stdout, inserted>>
  /\ UNCHANGED <<mainPc, expiredAtCall, gCancelled, groupErr, units, mutex,
                 output, requests, more, page, ret, failedRequest>>

\* a paging loop that asks for a page without consulting HasMorePages
RequestPageUnasked ==
  /\ mainPc = "loop"
  /\ requests <= MaxPages
  /\ mainPc' = "fetching"
  /\ requests' = requests + 1
  /\ UNCHANGED fnVars
  /\ UNCHANGED <<scan, stdout, inserted>>
  /\ UNCHANGED <<callerDone, expiredAtCall, gCancelled, groupErr, units, mutex,
                 output, more, page, ret, failedRequest>>

\* for paginator.HasMorePages() { ... paginator.NextPage(gCtx)
RequestPage ==
  /\ mainPc = "loop"
  /\ more
  /\ mainPc' = "fetching"
  /\ requests' = requests + 1
  /\ UNCHANGED fnVars
  /\ UNCHANGED <<scan, stdout, inserted>>
  /\ UNCHANGED <<callerDone, expiredAtCall, gCancelled, groupErr, units, mutex,
                 output, more, page, ret, failedRequest>>

\* NextPage returns a page; the paginator learns whether more pages exist
PageOk ==
  /\ mainPc = "fetching"
  /\ \E n \in 0..(MaxRoles - Len(units)) :
       \E roles \in [1..n -> RoleRecords] :
         /\ page' = roles
         /\ mainPc' = IF n = 0 THEN "loop" ELSE "launch"
  /\ more' \in (IF requests < MaxPages THEN BOOLEAN ELSE {FALSE})
  /\ UNCHANGED fnVars
  /\ UNCHANGED <<scan, stdout, inserted>>
  /\ UNCHANGED <<callerDone, expiredAtCall, gCancelled, groupErr, units, mutex,
                 output, requests, ret, failedRequest>>

\* a failed NextPage that leaves the loop (break) instead of returning
PageFailsBreak ==
  /\ mainPc = "fetching"
  /\ mainPc' = "wait"
  /\ failedRequest' = requests
  /\ UNCHANGED fnVars
  /\ UNCHANGED <<scan, stdout, inserted>>
  /\ UNCHANGED <<callerDone, expiredAtCall, gCancelled, groupErr, units, mutex,
                 output, requests, more, page, ret>>

\* NextPage fails: return nil, fmt.Errorf("failed to list roles: %w", ...)
PageFails ==
  /\ mainPc = "fetching"
  /\ \E kind \in {"fetch"} \cup (IF gCtxDone THEN {"ctx"} ELSE {}) :
       ret' = ReturnError("list", PageError(kind))
  /\ mainPc' = "done"
  /\ failedRequest' = requests
  /\ UNCHANGED fnVars
  /\ UNCHANGED <<scan, stdout, inserted>>
  /\ UNCHANGED <<callerDone, expiredAtCall, gCancelled, groupErr, units, mutex,
                 output, requests, more, page>>

\* for _, role := range page.Roles { group.Go(func() error {...}) }
Launch ==
  /\ mainPc = "launch"
  /\ units' = Append(units, NewUnit(Head(page)))
  /\ page' = Tail(page)
  /\ mainPc' = IF Len(page) = 1 THEN "loop" ELSE "launch"
  /\ UNCHANGED fnVars
  /\ UNCHANGED <<scan, stdout, inserted>>
  /\ UNCHANGED <<callerDone, expiredAtCall, gCancelled, groupErr, mutex,
                 output, requests, more, ret, failedRequest>>

\* HasMorePages() is false: the loop ends and group.Wait() is called
EnterWait ==
  /\ mainPc = "loop"
  /\ ~more
  /\ mainPc' = "wait"
  /\ UNCHANGED fnVars
  /\ UNCHANGED <<scan, stdout, inserted>>
  /\ UNCHANGED <<callerDone, expiredAtCall, gCancelled, groupErr, units, mutex,
                 output, requests, more, page, ret, failedRequest>>

\* wg.Wait() blocks until every unit has called g.done()
WaitJoined == AllUnitsDone

\* a resolver that hands back the map together with the error
WaitResultWithMap ==
  IF groupErr # NoError
    THEN [ReturnError("process", groupErr) EXCEPT !.nilMap = FALSE, !.map = output]
    ELSE ReturnMap(output)

\* a join that does not count a unit's context error as a failure
WaitResultIgnoresCtx ==
  IF groupErr # NoError /\ groupErr.kind # "ctx"
    THEN ReturnError("process", groupErr)
    ELSE ReturnMap(output)

\* err := group.Wait(); if err != nil { return nil, fmt.Errorf(...) }
\* return output, nil
WaitResult ==
  IF groupErr # NoError THEN ReturnError("process", groupErr)
  ELSE ReturnMap(output)

\* group.Wait() returns: gCtx is cancelled, g.err decides the result
GroupWait ==
  /\ mainPc = "wait"
  /\ WaitJoined
  /\ gCancelled' = TRUE
  /\ ret' = WaitResult
  /\ mainPc' = "done"
  /\ UNCHANGED fnVars
  /\ UNCHANGED <<scan, stdout, inserted>>
  /\ UNCHANGED <<callerDone, expiredAtCall, groupErr, units, mutex, output,
                 requests, more, page, failedRequest>>

\* an entry check that sees only the group's own cancellation
EntryCheckGroupOnly == gCancelled

\* a unit without the entry check
EntryCheckNever == FALSE

\* select { case <-gCtx.Done(): return gCtx.Err(); default: ... }
EntryCheckCancelled == gCtxDone

UnitEntry(u) ==
  /\ units[u].pc = "entry"
  /\ IF EntryCheckCancelled
       THEN UnitReturns(u, CtxError(u))
       ELSE /\ units' = [units EXCEPT ![u].pc = "decode"]
            /\ UNCHANGED <<groupErr, gCancelled>>
  /\ UNCHANGED fnVars
  /\ UNCHANGED <<scan, stdout, inserted>>
  /\ UNCHANGED <<mainPc, callerDone, expiredAtCall, mutex, output, requests,
                 more, page, ret, failedRequest>>

\* a unit that looks at the context again before it decodes
UnitDecodePreempted(u) ==
  /\ units[u].pc = "decode"
  /\ LET r == decodeRoleTrust(units[u].role)
     IN IF gCtxDone
          THEN UnitReturns(u, CtxError(u))
        ELSE IF r.err # "none"
          THEN /\ units' = [units EXCEPT ![u].pc = "done", ![u].decoded = TRUE,
                                         ![u].result = DecodeError(u, r.err)]
               /\ ErrOnce(DecodeError(u, r.err))
          ELSE /\ units' = [units EXCEPT ![u].pc = "lock", ![u].decoded = TRUE,
                                         ![u].policy = r.policy]
               /\ UNCHANGED <<groupErr, gCancelled>>
  /\ UNCHANGED fnVars
  /\ UNCHANGED <<scan, stdout, inserted>>
  /\ UNCHANGED <<mainPc, callerDone, expiredAtCall, mutex, output, requests,
                 more, page, ret, failedRequest>>

\* policy, errDecodeTrust := decodeRoleTrust(role)
UnitDecode(u) ==
  /\ units[u].pc = "decode"
  /\ LET r == decodeRoleTrust(units[u].role)
     IN IF r.err # "none"
          THEN /\ units' = [units EXCEPT ![u].pc = "done", ![u].decoded = TRUE,
                                         ![u].result = DecodeError(u, r.err)]
               /\ ErrOnce(DecodeError(u, r.err))
          ELSE /\ units' = [units EXCEPT ![u].pc = "lock", ![u].decoded = TRUE,
                                         ![u].policy = r.policy]
               /\ UNCHANGED <<groupErr, gCancelled>>
  /\ UNCHANGED fnVars
  /\ UNCHANGED <<scan, stdout, inserted>>
  /\ UNCHANGED <<mainPc, callerDone, expiredAtCall, mutex, output, requests,
                 more, page, ret, failedRequest>>

\* a Lock that does not wait for the holder to unlock
UnitLockNoWait(u) ==
  /\ units[u].pc = "lock"
  /\ mutex' = u
  /\ units' = [units EXCEPT ![u].pc = "locked"]
  /\ UNCHANGED fnVars
  /\ UNCHANGED <<scan, stdout, inserted>>
  /\ UNCHANGED <<mainPc, callerDone, expiredAtCall, gCancelled, groupErr,
                 output, requests, more, page, ret, failedRequest>>

\* mutex.Lock()
UnitLock(u) ==
  /\ units[u].pc = "lock"
  /\ mutex = 0
  /\ mutex' = u
  /\ units' = [units EXCEPT ![u].pc = "locked"]
  /\ UNCHANGED fnVars
  /\ UNCHANGED <<scan, stdout, inserted>>
  /\ UNCHANGED <<mainPc, callerDone, expiredAtCall, gCancelled, groupErr,
                 output, requests, more, page, ret, failedRequest>>

\* a unit that returns without releasing the mutex
UnlockMissing(u) == mutex

\* the deferred mutex.Unlock()
Unlock(u) == IF mutex = u THEN 0 ELSE mutex

\* where policy.getAllPrincipals() is called: under the unit's Lock or not
AggregatedAt(u) == IF mutex = u THEN "locked" ELSE "unlocked"

\* output[*role.Arn] = policy.getAllPrincipals(); return nil, which runs
\* the deferred mutex.Unlock()
UnitInsert(u) ==
  /\ units[u].pc = "locked"
  /\ output' = MapPut(output, units[u].role.arn, getAllPrincipals(units[u].policy))
  /\ mutex' = Unlock(u)
  /\ units' = [units EXCEPT ![u].pc = "done", ![u].wrote = TRUE,
                            ![u].late = gCtxDone,
                            ![u].aggregatedAt = AggregatedAt(u)]
  /\ inserted' = Append(inserted, units[u].role.arn)
  /\ ErrOnce(NoError)
  /\ UNCHANGED fnVars
  /\ UNCHANGED <<scan, stdout>>
  /\ UNCHANGED <<mainPc, callerDone, expiredAtCall, requests, more, page, ret, failedRequest>>

\* ------------------------------------------------------------ mapFlip
\* the sequences that enumerate the set S once each: the orders in which a
\* range over a Go map may visit its keys
Orders(S) == {o \in [1..Cardinality(S) -> S] : Range(o) = S}

\* a mapFlip that stores the role instead of appending it
FlipStore(out, principal, role) == MapPut(out, principal, <<role>>)

\* output[principal] = append(output[principal], role)
FlipAppend(out, principal, role) ==
  MapPut(out, principal,
         IF principal \in DOMAIN out THEN Append(out[principal], role)
         ELSE <<role>>)

\* a range over principals that stops before the last element
RECURSIVE FlipPrincipalsShort(_, _, _)
FlipPrincipalsShort(out, role, list) ==
  IF Len(list) <= 1 THEN out
  ELSE FlipPrincipalsShort(FlipAppend(out, Head(list), role), role, Tail(list))

\* for _, principal := range principals { ... }
RECURSIVE FlipPrincipals(_, _, _)
FlipPrincipals(out, role, list) ==
  IF list = <<>> THEN out
  ELSE FlipPrincipals(FlipAppend(out, Head(list), role), role, Tail(list))

\* a range over input that stops after the first key
FlipRolesOnce(out, input, order) ==
  IF order = <<>> THEN out
  ELSE FlipPrincipals(out, Head(order), input[Head(order)])

\* for role, principals := range input { ... }, the keys visited in order
RECURSIVE FlipRoles(_, _, _)
FlipRoles(out, input, order) ==
  IF order = <<>> THEN out
  ELSE FlipRoles(FlipPrincipals(out, Head(order), input[Head(order)]),
                 input, Tail(order))

\* mapFlip, the range over input visiting its keys in the given order
mapFlip(input, order) == FlipRoles(<<>>, input, order)

\* Whether a map variable is nil: it is not once make has given it a map; a
\* variable that was only declared is nil as long as nothing is stored.
MapIsNil(made, m) == ~made /\ DOMAIN m = {}

\* mapFlip with output declared by var and made at the first append
mapFlipIsNilUnmade(input, order) == MapIsNil(FALSE, mapFlip(input, order))

\* whether mapFlip returns nil: output := make(map[string][]string) comes
\* before the range, which visits nothing for an empty and for a nil input
mapFlipIsNil(input, order) == MapIsNil(TRUE, mapFlip(input, order))

\* ------------------------------------------------- runScanIAM and main
\* goroutines run until main returns and the process exits
UnitStep ==
  /\ mainPc # "exit"
  /\ \E u \in UnitIds :
       UnitEntry(u) \/ UnitDecode(u) \/ UnitLock(u) \/ UnitInsert(u)

\* a runScanIAM that marshals the map it got whatever the error
ScanResultAlways(flip) ==
  [returned |-> TRUE, nilBytes |-> FALSE, bytes |-> MarshalIndent(flip),
   err |-> ret.err # NoError]

\* if err != nil { return nil, fmt.Errorf("failed to fetch IAM roles: %w", err) }
\* ... marshal, err := json.MarshalIndent(flip, "", "  "); return marshal, nil
ScanResult(flip) ==
  IF ret.err # NoError
    THEN [returned |-> TRUE, nilBytes |-> TRUE, bytes |-> <<>>, err |-> TRUE]
    ELSE [returned |-> TRUE, nilBytes |-> FALSE, bytes |-> MarshalIndent(flip),
          err |-> FALSE]

\* main's output: on an error slog.Error and return, else
\* os.Stdout.Write(marshal)
Written(r) ==
  IF r.err THEN stdout ELSE [written |-> TRUE, bytes |-> r.bytes]

\* the rest of main once getRolesWithTrust has returned into runScanIAM:
\* the error check, mapFlip(output) with Go choosing the iteration order,
\* the marshalling, runScanIAM's return, main's write or error log; then
\* main returns and the process exits
RunScanIAM ==
  /\ mainPc = "done"
  /\ \E order \in Orders(DOMAIN ret.map) :
       /\ scan' = ScanResult(mapFlip(ret.map, order))
       /\ stdout' = Written(ScanResult(mapFlip(ret.map, order)))
  /\ mainPc' = "exit"
  /\ UNCHANGED fnVars
  /\ UNCHANGED inserted
  /\ UNCHANGED <<callerDone, expiredAtCall, gCancelled, groupErr, units, mutex,
                 output, requests, more, page, ret, failedRequest>>

Next ==
  \/ CallerCancel
  \/ RequestPage
  \/ PageOk
  \/ PageFails
  \/ Launch
  \/ EnterWait
  \/ GroupWait
  \/ UnitStep
  \/ RunScanIAM

Spec == Init /\ [][Next]_vars

\* the resolver under fair scheduling: while some goroutine can take a step
\* or a page request is outstanding, a step is eventually taken
FairSpec == Spec /\ WF_vars(Next)

\* ------------------------------------- exercising the pure functions
\* principal occurrences of a policy
RECURSIVE ItemCount(_)
ItemCount(stmts) ==
  IF stmts = <<>> THEN 0
  ELSE Len(AllItems(Head(stmts).Principal)) + ItemCount(Tail(stmts))

RECURSIVE EntryCount(_, _)
EntryCount(m, keys) ==
  IF keys = {} THEN 0
  ELSE LET k == CHOOSE x \in keys : TRUE
       IN Len(m[k]) + EntryCount(m, keys \ {k})

InitFn ==
  /\ fnMode \in {"aggregate", "flip", "items", "decode"}
  /\ FnStart
  /\ mainPc = "loop"
  /\ callerDone = FALSE
  /\ expiredAtCall = FALSE
  /\ gCancelled = FALSE
  /\ groupErr = NoError
  /\ units = <<>>
  /\ mutex = 0
  /\ output = <<>>
  /\ requests = 0
  /\ more = TRUE
  /\ page = <<>>
  /\ ret = NotReturned
  /\ failedRequest = 0
  /\ scan = NotScanned
  /\ stdout = NoOutput
  /\ inserted = <<>>

\* the decoder appends a statement naming no principal
AddStatement ==
  /\ fnMode = "aggregate" /\ ~principals.done
  /\ Len(policy.Statement) < MaxStatements
  /\ policy' = [policy EXCEPT !.Statement =
                   Append(@, [Principal |-> EmptyPrincipal, Action |-> <<>>])]
  /\ UNCHANGED <<fnMode, principals, trustMap, flipped, flippedBack,
                 rawValue, itemsResult, rawDoc, decodeResult>>
  /\ UNCHANGED resolverVars

\* the decoder appends an identifier to one category of one statement
AddPrincipal ==
  /\ fnMode = "aggregate" /\ ~principals.done
  /\ ItemCount(policy.Statement) < MaxItems
  /\ \E i \in 1..Len(policy.Statement), c \in CategorySet, id \in PrincipalIds :
       policy' = [policy EXCEPT !.Statement[i].Principal[c] = Append(@, id)]
  /\ UNCHANGED <<fnMode, principals, trustMap, flipped, flippedBack,
                 rawValue, itemsResult, rawDoc, decodeResult>>
  /\ UNCHANGED resolverVars

\* policy.getAllPrincipals()
Aggregate ==
  /\ fnMode = "aggregate" /\ ~principals.done
  /\ principals' = [done |-> TRUE, list |-> getAllPrincipals(policy),
                    isNil |-> getAllPrincipalsIsNil(policy)]
  /\ UNCHANGED <<fnMode, policy, trustMap, flipped, flippedBack,
                 rawValue, itemsResult, rawDoc, decodeResult>>
  /\ UNCHANGED resolverVars

\* the caller's map gets a role with an empty list
AddRole ==
  /\ fnMode = "flip" /\ ~flipped.done
  /\ \E arn \in RoleArns \ DOMAIN trustMap :
       trustMap' = MapPut(trustMap, arn, <<>>)
  /\ UNCHANGED <<fnMode, policy, principals, flipped, flippedBack,
                 rawValue, itemsResult, rawDoc, decodeResult>>
  /\ UNCHANGED resolverVars

\* the caller's map gets a principal appended to a role's list
AddEntry ==
  /\ fnMode = "flip" /\ ~flipped.done
  /\ EntryCount(trustMap, DOMAIN trustMap) < MaxEntries
  /\ \E arn \in DOMAIN trustMap, id \in PrincipalIds :
       trustMap' = [trustMap EXCEPT ![arn] = Append(@, id)]
  /\ UNCHANGED <<fnMode, policy, principals, flipped, flippedBack,
                 rawValue, itemsResult, rawDoc, decodeResult>>
  /\ UNCHANGED resolverVars

\* mapFlip(trustMap), Go choosing the iteration order; a map without
\* entries is passed as an empty map or as nil
Flip ==
  /\ fnMode = "flip" /\ ~flipped.done
  /\ \E order \in Orders(DOMAIN trustMap) :
       \E inputNil \in (IF DOMAIN trustMap = {} THEN BOOLEAN ELSE {FALSE}) :
         flipped' = [done |-> TRUE, map |-> mapFlip(trustMap, order),
                     isNil |-> mapFlipIsNil(trustMap, order),
                     inputNil |-> inputNil]
  /\ UNCHANGED <<fnMode, policy, principals, trustMap, flippedBack,
                 rawValue, itemsResult, rawDoc, decodeResult>>
  /\ UNCHANGED resolverVars

\* mapFlip(flipped.map), each value of the result passed through uniqSlice
FlipBack ==
  /\ fnMode = "flip" /\ flipped.done /\ ~flippedBack.done
  /\ \E order \in Orders(DOMAIN flipped.map) :
       LET back == mapFlip(flipped.map, order)
       IN flippedBack' = [done |-> TRUE,
                          map |-> [r \in DOMAIN back |-> uniqSlice(back[r])],
                          isNil |-> mapFlipIsNil(flipped.map, order),
                          inputNil |-> FALSE]
  /\ UNCHANGED <<fnMode, policy, principals, trustMap, flipped,
                 rawValue, itemsResult, rawDoc, decodeResult>>
  /\ UNCHANGED resolverVars

\* the JSON values a flexible field is given: null, a number, an object, a
\* string, the empty array
RawValues ==
  {JNull, JNumber, JObject, JArrayOf(<<>>)} \cup {JString(id) : id \in PrincipalIds}

\* the elements a JSON array is given
RawElements == {JNull, JNumber} \cup {JString(id) : id \in PrincipalIds}

\* the caller passes data holding one JSON value instead of empty data
SetRawValue ==
  /\ fnMode = "items" /\ ~itemsResult.done
  /\ rawValue = JAbsent
  /\ \E v \in RawValues : rawValue' = v
  /\ UNCHANGED <<fnMode, policy, principals, trustMap, flipped, flippedBack,
                 itemsResult, rawDoc, decodeResult>>
  /\ UNCHANGED resolverVars

\* the array passed gets one more element
AddElement ==
  /\ fnMode = "items" /\ ~itemsResult.done
  /\ rawValue.t = "array" /\ Len(rawValue.a) < MaxElements
  /\ \E e \in RawElements : rawValue' = JArrayOf(Append(rawValue.a, e))
  /\ UNCHANGED <<fnMode, policy, principals, trustMap, flipped, flippedBack,
                 itemsResult, rawDoc, decodeResult>>
  /\ UNCHANGED resolverVars

\* var items Items; err := items.UnmarshalJSON(data)
UnmarshalItems ==
  /\ fnMode = "items" /\ ~itemsResult.done
  /\ itemsResult' = [done |-> TRUE, r |-> ItemsUnmarshalJSON(rawValue)]
  /\ UNCHANGED <<fnMode, policy, principals, trustMap, flipped, flippedBack,
                 rawValue, rawDoc, decodeResult>>
  /\ UNCHANGED resolverVars

\* the values of a statement's Action and of a principal category in the
\* generated documents
RawActions == {JAbsent, JNull, JString(1), JNumber}

RawFields == {JString(1), JArray(<<2, 1>>), JNumber, JArrayOf(<<JString(1), JNull>>)}

\* the Principal values of the generated documents: absent, null, a string
\* ("*"), an array of strings, an empty object, an object with one category
RawPrincipals ==
  {RawPrincipal(k, NoFields) : k \in {"absent", "null", "string", "array", "object"}}
  \cup {RawPrincipal("object", [NoFields EXCEPT ![c] = v]) :
          c \in CategorySet, v \in RawFields}

\* the document states "Version": "2012-10-17"
DocVersion ==
  /\ fnMode = "decode" /\ ~decodeResult.done
  /\ rawDoc = DocEmpty
  /\ rawDoc' = [rawDoc EXCEPT !.Version = "2012-10-17"]
  /\ UNCHANGED <<fnMode, policy, principals, trustMap, flipped, flippedBack,
                 rawValue, itemsResult, decodeResult>>
  /\ UNCHANGED resolverVars

\* the document gets one more statement
DocStatement ==
  /\ fnMode = "decode" /\ ~decodeResult.done
  /\ rawDoc.esc /\ rawDoc.syn
  /\ Len(rawDoc.Statement) < MaxRawStatements
  /\ \E rp \in RawPrincipals, act \in RawActions :
       rawDoc' = [rawDoc EXCEPT !.Statement =
                    Append(@, [Principal |-> rp, Action |-> act])]
  /\ UNCHANGED <<fnMode, policy, principals, trustMap, flipped, flippedBack,
                 rawValue, itemsResult, decodeResult>>
  /\ UNCHANGED resolverVars

\* the document's text gets a bad percent-escape ("test%2x") or stops
\* being JSON ("test")
DocCorrupt ==
  /\ fnMode = "decode" /\ ~decodeResult.done
  /\ rawDoc.esc /\ rawDoc.syn
  /\ \/ rawDoc' = [rawDoc EXCEPT !.esc = FALSE]
     \/ rawDoc' = [rawDoc EXCEPT !.syn = FALSE]
  /\ UNCHANGED <<fnMode, policy, principals, trustMap, flipped, flippedBack,
                 rawValue, itemsResult, decodeResult>>
  /\ UNCHANGED resolverVars

\* got, err := decodeRoleTrust(role)
Decode ==
  /\ fnMode = "decode" /\ ~decodeResult.done
  /\ decodeResult' = [done |-> TRUE, r |-> decodeRoleTrust(Role("role1", rawDoc))]
  /\ UNCHANGED <<fnMode, policy, principals, trustMap, flipped, flippedBack,
                 rawValue, itemsResult, rawDoc>>
  /\ UNCHANGED resolverVars

NextFn ==
  \/ AddStatement
  \/ AddPrincipal
  \/ Aggregate
  \/ AddRole
  \/ AddEntry
  \/ Flip
  \/ FlipBack
  \/ SetRawValue
  \/ AddElement
  \/ UnmarshalItems
  \/ DocVersion
  \/ DocStatement
  \/ DocCorrupt
  \/ Decode

SpecFn == InitFn /\ [][NextFn]_vars

\* ------------------------------------------------ pure-function properties
IsStrictlyAscending(s) == \A i \in 1..Len(s) : \A j \in 1..Len(s) : i < j => s[i] < s[j]

\* every identifier a policy names, over all statements and categories
PolicyIds(p) ==
  UNION {Range(p.Statement[i].Principal[c]) :
           i \in 1..Len(p.Statement), c \in CategorySet}

\* C9: getAllPrincipals returns a strictly ascending list (sorted, no
\* duplicates) whose elements are exactly the identifiers of the five
\* categories of all statements.
C9_SortedSetUnion ==
  principals.done =>
    /\ IsStrictlyAscending(principals.list)
    /\ Range(principals.list) = PolicyIds(policy)

\* an identifier repeated across two statements and two categories, and a
\* smaller one named after it
C9_Witness ==
  /\ principals.done
  /\ Len(policy.Statement) = 2
  /\ policy.Statement[1].Principal["AWS"] = <<2>>
  /\ policy.Statement[2].Principal["Service"] = <<2>>
  /\ policy.Statement[2].Principal["Anonymous"] = <<1>>
  /\ principals.list = <<1, 2>>

NoDuplicates(list) ==
  \A i \in 1..Len(list) : \A j \in 1..Len(list) : i # j => list[i] # list[j]

Occurrences(list, x) == Cardinality({i \in 1..Len(list) : list[i] = x})

\* C10: for a map whose lists hold no duplicates, mapFlip's result has P as
\* a key iff some role lists P, and P's list holds every role listing P
\* exactly once and no other role.
C10_ExactInversion ==
  (flipped.done /\ \A r \in DOMAIN trustMap : NoDuplicates(trustMap[r]))
  =>
    /\ DOMAIN flipped.map = UNION {Range(trustMap[r]) : r \in DOMAIN trustMap}
    /\ \A p \in DOMAIN flipped.map : \A r \in RoleArns :
         Occurrences(flipped.map[p], r) =
           IF r \in DOMAIN trustMap /\ p \in Range(trustMap[r]) THEN 1 ELSE 0

\* the test's map: two roles sharing a principal, one role of its own each
C10_Witness ==
  /\ flipped.done
  /\ DOMAIN trustMap = {"role1", "role2"}
  /\ trustMap["role1"] = <<1, 2>> /\ trustMap["role2"] = <<1>>
  /\ DOMAIN flipped.map = {1, 2}
  /\ Len(flipped.map[1]) = 2

\* ------------------------------------------------------ resolver properties
\* every identifier a raw document names in a principal category
RawIds(v) == IF v.t = "string" THEN {v.s} ELSE {v.a[i].s : i \in 1..Len(v.a)}

RawPrincipalIds(doc) ==
  UNION {RawIds(doc.Statement[i].Principal.f[c]) :
           i \in 1..Len(doc.Statement), c \in CategorySet}

DocDecodes(doc) == doc \in {DocECS, DocSSO}

UnitFailed(u) == units[u].result # NoError

\* C1: getRolesWithTrust returns either a non-nil map and no error, or a nil
\* map and an error; if any unit returned an error there is no map, whatever
\* the shared map already holds.
C1_AllOrNothing ==
  ret.returned =>
    /\ \/ ~ret.nilMap /\ ret.err = NoError /\ ret.outer = "none"
       \/ ret.nilMap /\ ret.err # NoError /\ ret.outer # "none"
    /\ (\E u \in UnitIds : UnitFailed(u)) => ret.nilMap /\ ret.map = <<>>

\* a run where one unit failed after another had written its entry
C1_Witness ==
  /\ ret.returned /\ ret.nilMap /\ ret.outer = "process"
  /\ \E u \in UnitIds : UnitFailed(u)
  /\ DOMAIN output # {}

\* C2: N roles with pairwise distinct ARNs whose documents all decode, every
\* fetch succeeding and the caller's context live: the returned map has
\* exactly N keys, one per role, each with that role's sorted principals.
C2_NoLostEntry ==
  ( /\ ret.returned
    /\ ret.outer # "list"
    /\ ~callerDone
    /\ \A u \in UnitIds : DocDecodes(units[u].role.doc)
    /\ \A u \in UnitIds : \A w \in UnitIds : u # w => units[u].role.arn # units[w].role.arn )
  =>
    /\ ~ret.nilMap /\ ret.err = NoError
    /\ DOMAIN ret.map = {units[u].role.arn : u \in UnitIds}
    /\ Cardinality(DOMAIN ret.map) = Len(units)
    /\ \A u \in UnitIds :
         /\ IsStrictlyAscending(ret.map[units[u].role.arn])
         /\ Range(ret.map[units[u].role.arn]) = RawPrincipalIds(units[u].role.doc)

\* two roles resolved to two different lists
C2_Witness ==
  /\ ret.returned /\ ~ret.nilMap
  /\ Len(units) = 2
  /\ DOMAIN ret.map = {"role1", "role2"}
  /\ ret.map["role1"] # ret.map["role2"]

\* C3: on every return path every launched unit has finished before
\* getRolesWithTrust returns.
C3_JoinBeforeReturn == ret.returned => AllUnitsDone

\* C4: with the caller's context live and a unit's decode error recorded
\* first, the returned error is that decode error, never a page-fetch error
\* caused by the internal cancellation.  (A fetch that fails on the
\* collaborator's own account is left out: it is C7's case.)
C4_FirstErrorWins ==
  ( /\ ret.returned
    /\ ~callerDone
    /\ groupErr.wrap = "decode"
    /\ ~(ret.outer = "list" /\ ret.err.kind = "fetch") )
  => ret.outer = "process" /\ ret.err = groupErr

\* every launched unit short-circuits at its entry check
AllShortCircuit ==
  \A u \in UnitIds :
    /\ units[u].pc \in {"entry", "done"}
    /\ ~units[u].decoded /\ ~units[u].wrote
    /\ units[u].pc = "done" => units[u].result = CtxError(u)

\* C5 as claimed: with a context already expired at the call every unit
\* short-circuits and the function returns a nil map and a cancellation
\* error.  (A fetch that fails on the collaborator's own account is left out.)
C5_ExpiredAsClaimed ==
  expiredAtCall =>
    /\ AllShortCircuit /\ output = <<>>
    /\ (ret.returned /\ ret.err.kind # "fetch") => ret.nilMap /\ ret.err.kind = "ctx"

\* C5 amended: the same, the cancellation error being returned when at
\* least one unit was launched; with no unit the result is C6's.
C5_ExpiredContext ==
  expiredAtCall =>
    /\ AllShortCircuit /\ output = <<>>
    /\ (ret.returned /\ ret.err.kind # "fetch" /\ Len(units) >= 1)
         => ret.nilMap /\ ret.err.kind = "ctx"
    /\ (ret.returned /\ ret.outer # "list" /\ Len(units) = 0)
         => ~ret.nilMap /\ ret.map = <<>> /\ ret.err = NoError

\* an expired context, two units short-circuited, the join returned
C5_Witness ==
  /\ expiredAtCall /\ ret.returned /\ ret.outer = "process"
  /\ Len(units) = 2
  /\ \A u \in UnitIds : units[u].result = CtxError(u)

\* C6: no role records and no failed fetch: an empty, non-nil map, no error.
C6_ZeroRoles ==
  (ret.returned /\ ret.outer # "list" /\ Len(units) = 0)
    => ~ret.nilMap /\ ret.map = <<>> /\ ret.err = NoError

\* two empty pages served, the join returned
C6_Witness ==
  /\ ret.returned /\ ret.outer = "none" /\ Len(units) = 0 /\ requests = 2

\* C7: a failed page fetch ends the run at once: no further page is
\* requested, the map is nil, the error is the fetch error, and entries of
\* earlier pages are not returned.
C7_PageFetchFatal ==
  failedRequest # 0 =>
    /\ ret.returned /\ mainPc \in {"done", "exit"}
    /\ requests = failedRequest
    /\ ret.nilMap /\ ret.map = <<>>
    /\ ret.outer = "list" /\ ret.err.kind \in {"fetch", "ctx"}

\* the second page failed after the first page's role was written
C7_Witness ==
  /\ failedRequest = 2 /\ ret.returned
  /\ DOMAIN output # {}

\* C8: under fair scheduling, with every page request answered and the
\* pages running out, getRolesWithTrust eventually returns.
C8_Termination == <>(ret.returned)

\* two units went through the lock and the join returned their map
C8_Witness ==
  /\ ret.returned /\ ~ret.nilMap
  /\ Len(units) = 2
  /\ \A u \in UnitIds : units[u].wrote

\* ------------------------------------------------- output determinism
\* C11: the result of mapFlip is the same on every run: whatever order the
\* range over the input map takes, every principal's role list is the same
\* sequence.
C11_DeterministicFlip ==
  flipped.done =>
    \A o \in Orders(DOMAIN trustMap) : mapFlip(trustMap, o) = flipped.map

\* ------------------------------------------------- decoder properties
IsArrayOfStrings(v) ==
  v.t = "array" /\ \A i \in 1..Len(v.a) : v.a[i].t = "string"

\* C12: Items.UnmarshalJSON gives nil for empty data and for null, the
\* one-element list [s] for a string s (by the string attempt), the same
\* sequence for an array of strings (by the array attempt), and an error
\* for every other JSON value.
C12_FlexibleDecode ==
  itemsResult.done =>
    LET v == rawValue
        r == itemsResult.r
    IN /\ v.t \in {"absent", "null"} => ~r.err /\ r.isNil /\ r.items = <<>>
       /\ v.t = "string" =>
            ~r.err /\ ~r.isNil /\ r.by = "string" /\ r.items = <<v.s>>
       /\ IsArrayOfStrings(v) =>
            /\ ~r.err /\ ~r.isNil /\ r.by = "array"
            /\ r.items = [i \in 1..Len(v.a) |-> v.a[i].s]
       /\ (v.t \notin {"absent", "null", "string"} /\ ~IsArrayOfStrings(v))
            => r.err

\* the flexible rule as stated: absent, null, a string and an array of
\* strings are the legal shapes of a field
FlexibleShape(v) == v.t \in {"absent", "null", "string"} \/ IsArrayOfStrings(v)

\* C13: a document that unescapes, parses and has a legal Action in every
\* statement decodes without error when each statement's Principal is a
\* single string, an array of strings, absent or null.
C13_PrincipalShapes ==
  ( /\ decodeResult.done
    /\ rawDoc.esc /\ rawDoc.syn
    /\ \A i \in 1..Len(rawDoc.Statement) :
         /\ rawDoc.Statement[i].Principal.t \in {"string", "array", "absent", "null"}
         /\ FlexibleShape(rawDoc.Statement[i].Action) )
  => decodeResult.r.err = "none"

\* a statement has a field of a shape the flexible rule rejects: its Action,
\* its Principal, or a category of a Principal given as an object
ShapeRejected(rs) ==
  \/ ~FlexibleShape(rs.Action)
  \/ rs.Principal.t \notin {"absent", "null", "string", "array", "object"}
  \/ /\ rs.Principal.t = "object"
     /\ \E c \in CategorySet : ~FlexibleShape(rs.Principal.f[c])

\* C14: decodeRoleTrust returns the zero TrustPolicy with every error; it
\* returns an error when unescaping fails, when the text is not JSON and
\* when a field has a rejected shape, and no error otherwise; the document
\* {} gives no error, an empty version and no statements.
C14_ValueOrError ==
  decodeResult.done =>
    LET r == decodeResult.r
        bad == \/ ~rawDoc.esc
               \/ ~rawDoc.syn
               \/ \E i \in 1..Len(rawDoc.Statement) : ShapeRejected(rawDoc.Statement[i])
    IN /\ r.err # "none" => r.policy = ZeroPolicy
       /\ bad <=> r.err # "none"
       /\ ~bad => /\ r.policy.Version = rawDoc.Version
                  /\ Len(r.policy.Statement) = Len(rawDoc.Statement)
       /\ rawDoc = DocEmpty =>
            r.err = "none" /\ r.policy.Version = "" /\ r.policy.Statement = <<>>

\* ------------------------------------------------ error reporting
\* C15: when the error getRolesWithTrust returns is a unit's decode error,
\* it carries the ARN of the role that unit was decoding.
C15_ErrorNamesRole ==
  (ret.returned /\ ret.err.wrap = "decode")
    => ret.err.arn = units[ret.err.unit].role.arn

\* ------------------------------------------------- double inversion
\* C16 as claimed: the key set of mapFlip(mapFlip(M)) is the key set of M,
\* also when some role of M has an empty principal list.
C16_DoubleFlipKeys ==
  flippedBack.done => DOMAIN flippedBack.map = DOMAIN trustMap

\* C16 amended: the key set of mapFlip(mapFlip(M)) is the set of roles of M
\* with a non-empty principal list, and each such role's deduplicated,
\* sorted value holds exactly the principals M lists for it.
C16_DoubleFlipNonEmpty ==
  flippedBack.done =>
    /\ DOMAIN flippedBack.map = {r \in DOMAIN trustMap : trustMap[r] # <<>>}
    /\ \A r \in DOMAIN flippedBack.map :
         /\ IsStrictlyAscending(flippedBack.map[r])
         /\ Range(flippedBack.map[r]) = Range(trustMap[r])

\* a role without principals next to two roles sharing one, flipped twice
C16_Witness ==
  /\ flippedBack.done
  /\ DOMAIN trustMap = {"role1", "role2", "role3"}
  /\ trustMap["role1"] = <<2, 1>> /\ trustMap["role2"] = <<1>>
  /\ trustMap["role3"] = <<>>
  /\ DOMAIN flippedBack.map = {"role1", "role2"}

\* ------------------------------------------------- output on error
\* C17: whenever getRolesWithTrust returned an error, runScanIAM returns
\* nil bytes and an error, and nothing is ever written to standard output.
C17_NoOutputOnError ==
  (ret.returned /\ ret.err # NoError) =>
    /\ ~stdout.written /\ stdout.bytes = <<>>
    /\ scan.returned => scan.nilBytes /\ scan.bytes = <<>> /\ scan.err

\* main has returned after a run in which one unit failed and another had
\* already written its entry to the shared map
C17_Witness ==
  /\ mainPc = "exit" /\ scan.returned
  /\ ret.outer = "process" /\ ret.err.wrap = "decode"
  /\ DOMAIN output # {}

\* ------------------------------------------------- cancellation
\* the caller's context was live at the call and was cancelled before the
\* return
CancelledMidRun == callerDone /\ ~expiredAtCall

C19_ShortCircuit ==
  [][\A u \in UnitIds :
       (units[u].pc = "entry" /\ gCtxDone /\ units'[u] # units[u]) =>
         /\ units'[u].pc = "done"
         /\ units'[u].result = CtxError(u)
         /\ ~units'[u].decoded /\ ~units'[u].wrote
         /\ output' = output /\ mutex' = mutex]_vars

\* with the caller's context live, one unit failed to decode and a unit
\* checking afterwards returned the context error
C19_Witness ==
  /\ ~callerDone
  /\ \E u \in UnitIds : \E w \in UnitIds :
       /\ units[u].result.wrap = "decode"
       /\ units[w].result = CtxError(w)
       /\ units[w].pc = "done" /\ ~units[w].decoded

\* a unit is past its entry check and has not finished
PastEntryCheck(u) == units[u].pc \in {"decode", "lock", "locked"}

\* C20: a unit past its entry check is not interrupted by a cancellation:
\* whatever the state of the context, its decode step does decode, ending
\* in a decode error or going on to the lock, and its insert stores its
\* role's principals and finishes the unit; such a late write changes
\* neither the error the group has recorded nor a result already returned.
C20_NotPreemptive ==
  [][\A u \in UnitIds :
       /\ (units[u].pc = "decode" /\ units'[u] # units[u]) =>
            /\ units'[u].decoded
            /\ \/ units'[u].pc = "lock" /\ units'[u].result = NoError
               \/ units'[u].pc = "done" /\ units'[u].result.wrap = "decode"
       /\ (units[u].pc = "locked" /\ units'[u] # units[u]) =>
            /\ units'[u].pc = "done" /\ units'[u].wrote
            /\ units'[u].result = NoError
            /\ units[u].role.arn \in DOMAIN output'
            /\ output'[units[u].role.arn] = getAllPrincipals(units[u].policy)
       /\ (PastEntryCheck(u) /\ units'[u] # units[u]) =>
            /\ groupErr # NoError => groupErr' = groupErr
            /\ ret.returned => ret' = ret]_vars

\* a unit wrote its entry after the group's failure had been decided, and
\* the join returned that failure with a nil map
C20_Witness ==
  /\ ret.returned /\ ret.outer = "process" /\ ret.nilMap
  /\ ~callerDone
  /\ \E u \in UnitIds :
       /\ units[u].wrote /\ units[u].late
       /\ units[u].role.arn \in DOMAIN output
       /\ ret.err.unit # u

\* ------------------------------------------------- the shared map's lock
\* C21: after every step at most one unit is between Lock and Unlock, and
\* it is the unit the mutex records; a step that changes the shared map is
\* taken by the unit holding the mutex; a unit that has returned does not
\* hold the mutex.
C21_MutualExclusion ==
  [][/\ Cardinality({u \in 1..Len(units') : units'[u].pc = "locked"}) <= 1
     /\ \A u \in 1..Len(units') : units'[u].pc = "locked" <=> mutex' = u
     /\ \A u \in 1..Len(units') : units'[u].pc = "done" => mutex' # u
     /\ output' # output =>
          /\ mutex \in UnitIds /\ units[mutex].pc = "locked"
          /\ units'[mutex].pc = "done" /\ units'[mutex].wrote
          /\ \A w \in UnitIds \ {mutex} : units'[w] = units[w]]_vars

\* one unit holds the mutex while another waits in Lock
C21_Witness ==
  \E u \in UnitIds : \E w \in UnitIds :
    /\ mutex = u /\ units[u].pc = "locked"
    /\ units[w].pc = "lock"

\* C22: a unit decodes and aggregates before it acquires the mutex: a unit
\* holding the mutex has decoded and aggregated, and no aggregation is ever
\* made under the mutex.
C22_LockScope ==
  \A u \in UnitIds :
    /\ units[u].pc = "locked" =>
         units[u].decoded /\ units[u].aggregatedAt = "unlocked"
    /\ units[u].aggregatedAt # "locked"

\* ------------------------------------------------- paging
\* C23: a page is requested only when HasMorePages holds, no request is
\* outstanding, the page before it was returned without error and all its
\* roles were handed to units; requests are counted one at a time; once the
\* collaborator has reported no more pages it is never asked again, and
\* after a failed request nothing about the paging changes.
C23_SequentialPaging ==
  [][/\ requests' # requests =>
          /\ requests' = requests + 1
          /\ more /\ mainPc = "loop" /\ mainPc' = "fetching"
          /\ page = <<>> /\ failedRequest = 0 /\ ~ret.returned
     /\ (requests > 0 /\ ~more) => ~more' /\ requests' = requests
     /\ failedRequest # 0 =>
          requests' = requests /\ more' = more /\ page' = page
     /\ mainPc = "fetching" => requests' = requests]_vars

\* the second page is being fetched, the first having brought a role
C23_Witness ==
  /\ requests = 2 /\ mainPc = "fetching"
  /\ Len(units) >= 1

\* ------------------------------------------------- keys of the shared map
\* C24: a unit inserts its role's ARN only when the shared map does not
\* hold that key yet, and no step removes a key or changes the value stored
\* under it.
C24_WriteOnce ==
  [][/\ \A u \in UnitIds :
          (units[u].pc = "locked" /\ units'[u].pc = "done")
            => units[u].role.arn \notin DOMAIN output
     /\ \A k \in DOMAIN output :
          k \in DOMAIN output' /\ output'[k] = output[k]]_vars

\* ------------------------------------------------- order of the output
\* the place of a role's insert among the inserts into the shared map
InsertedAt(arn) == CHOOSE k \in 1..Len(inserted) : inserted[k] = arn

\* C25: in the text written to standard output the principal keys ascend,
\* and in every principal's role list the roles stand in the order in which
\* the resolver inserted their entries into the shared map (every ARN
\* having been inserted once).
C25_InsertionOrder ==
  (stdout.written /\ NoDuplicates(inserted)) =>
    /\ \A i \in 1..Len(stdout.bytes) : \A j \in 1..Len(stdout.bytes) :
         i < j => stdout.bytes[i][1] < stdout.bytes[j][1]
    /\ \A m \in 1..Len(stdout.bytes) :
         LET list == stdout.bytes[m][2]
         IN \A i \in 1..Len(list) : \A j \in 1..Len(list) :
              i < j => InsertedAt(list[i]) < InsertedAt(list[j])

\* ------------------------------------------------- empty results
\* C26: for a policy with no statements, and for one whose statements name
\* no principal, getAllPrincipals returns an empty list that is not nil;
\* its result is never nil.
C26_NeverAbsent ==
  principals.done =>
    /\ ~principals.isNil
    /\ PolicyIds(policy) = {} => principals.list = <<>>

\* two statements without a principal, aggregated
C26_Witness ==
  /\ principals.done
  /\ Len(policy.Statement) = 2 /\ PolicyIds(policy) = {}
  /\ principals.list = <<>>

\* C27: for an input without roles, passed as an empty map or as nil,
\* mapFlip returns a map that is empty and not nil.
C27_EmptyInput ==
  (flipped.done /\ DOMAIN trustMap = {}) =>
    ~flipped.isNil /\ DOMAIN flipped.map = {}

\* mapFlip(nil) has returned
C27_Witness ==
  /\ flipped.done /\ flipped.inputNil
  /\ DOMAIN trustMap = {} /\ DOMAIN flipped.map = {}

\* the roles that occur in a value list of the marshalled output
RolesWritten(bytes) ==
  UNION {Range(bytes[i][2]) : i \in 1..Len(bytes)}

\* the keys of a RoleTrustMap whose principal list is not empty
RolesNaming(trust) == {r \in DOMAIN trust : trust[r] # <<>>}

\* C28: a role whose principal list is empty is a key of the RoleTrustMap
\* and occurs in no value list of the PrincipalRoleMap; the roles in the
\* marshalled output are exactly the roles that name at least one principal.
C28_RolesWithoutPrincipals ==
  flipped.done =>
    /\ \A r \in DOMAIN trustMap : trustMap[r] = <<>> =>
         \A p \in DOMAIN flipped.map : r \notin Range(flipped.map[p])
    /\ RolesWritten(MarshalIndent(flipped.map)) = RolesNaming(trustMap)

\* a map with a role that names no principal and a role that names one has
\* been inverted
C28_Witness ==
  /\ flipped.done
  /\ \E r \in DOMAIN trustMap : trustMap[r] = <<>>
  /\ RolesNaming(trustMap) # {}

\* the same on the whole run: what main writes holds the enumerated roles
\* that name a principal
C28_RolesInStdout ==
  stdout.written => RolesWritten(stdout.bytes) = RolesNaming(ret.map)

====
